---- MODULE Spec2Model ----
(***************************************************************************)
(* S3 snapshot lifecycle of openclaw-lab                                   *)
(* (src/ec2-spot/templates/s3_snapshot_lifecycle.py).                      *)
(*                                                                         *)
(* Strings are TLA+ strings, read character by character with Len and      *)
(* SubSeq.  A datetime is a record [year, month, day, hour, minute,        *)
(* second] in UTC; a timedelta is a number of seconds.                     *)
(***************************************************************************)
EXTENDS Integers, Sequences, FiniteSets, TLC

(***************************************************************************)
(* Characters and strings (Python str)                                     *)
(***************************************************************************)

Digits == {"0", "1", "2", "3", "4", "5", "6", "7", "8", "9"}

\* int() of one decimal digit.
DigitVal(c) ==
    CASE c = "0" -> 0 [] c = "1" -> 1 [] c = "2" -> 2 [] c = "3" -> 3
      [] c = "4" -> 4 [] c = "5" -> 5 [] c = "6" -> 6 [] c = "7" -> 7
      [] c = "8" -> 8 [] c = "9" -> 9

\* ord() of the characters the model's strings are made of.
CharCode(c) ==
    CASE c \in Digits -> 48 + DigitVal(c)
      [] c = " " -> 32 [] c = "-" -> 45 [] c = "/" -> 47
      [] c = "R" -> 82 [] c = "a" -> 97 [] c = "b" -> 98 [] c = "d" -> 100
      [] c = "e" -> 101 [] c = "h" -> 104 [] c = "l" -> 108 [] c = "n" -> 110
      [] c = "o" -> 111 [] c = "p" -> 112 [] c = "s" -> 115 [] c = "t" -> 116
      [] c = "x" -> 120

CharAt(s, i) == SubSeq(s, i, i)

\* str < str: lexicographic by code point, a proper prefix first.
RECURSIVE StrLess(_, _)
StrLess(a, b) ==
    IF Len(b) = 0 THEN FALSE
    ELSE IF Len(a) = 0 THEN TRUE
    ELSE IF CharAt(a, 1) = CharAt(b, 1) THEN StrLess(Tail(a), Tail(b))
    ELSE CharCode(CharAt(a, 1)) < CharCode(CharAt(b, 1))

\* str.startswith
StartsWith(s, p) == Len(s) >= Len(p) /\ SubSeq(s, 1, Len(p)) = p

\* Length of s[1..n] without its trailing "/" characters.
RECURSIVE StrippedLen(_, _)
StrippedLen(s, n) ==
    IF n > 0 /\ CharAt(s, n) = "/" THEN StrippedLen(s, n - 1) ELSE n

\* str.rstrip("/"): every trailing "/" is removed.
RStripSlash(s) == SubSeq(s, 1, StrippedLen(s, Len(s)))

\* Position of the first occurrence of old in s at or after i, 0 when none.
RECURSIVE Find(_, _, _)
Find(s, old, i) ==
    IF i + Len(old) - 1 > Len(s) THEN 0
    ELSE IF CharAt(s, i) = CharAt(old, 1) /\ SubSeq(s, i, i + Len(old) - 1) = old
         THEN i
    ELSE Find(s, old, i + 1)

\* str.replace(old, ""): every non-overlapping occurrence, left to right.
RECURSIVE RemoveAll(_, _)
RemoveAll(s, old) ==
    LET i == Find(s, old, 1)
    IN  IF i = 0 THEN s
        ELSE SubSeq(s, 1, i - 1) \o RemoveAll(SubSeq(s, i + Len(old), Len(s)), old)

\* sorted(): ascending list of a set of strings.
RECURSIVE Sorted(_)
Sorted(S) ==
    IF S = {} THEN << >>
    ELSE LET m == CHOOSE x \in S : \A y \in S \ {x} : StrLess(x, y)
         IN  << m >> \o Sorted(S \ {m})

\* set(list)
Range(seq) == { seq[i] : i \in 1..Len(seq) }

(***************************************************************************)
(* datetime and timedelta                                                  *)
(***************************************************************************)

\* The value None, and a raised ValueError in place of a returned value.
None == [none |-> TRUE]

ValueError == [raised |-> "ValueError"]

IsLeap(y) == y % 4 = 0 /\ (y % 100 # 0 \/ y % 400 = 0)

DaysInMonth(y, m) ==
    IF m = 2 THEN (IF IsLeap(y) THEN 29 ELSE 28)
    ELSE IF m \in {4, 6, 9, 11} THEN 30 ELSE 31

RECURSIVE DaysBeforeMonth(_, _)
DaysBeforeMonth(y, m) ==
    IF m = 1 THEN 0 ELSE DaysBeforeMonth(y, m - 1) + DaysInMonth(y, m - 1)

\* date.toordinal(): days since 0001-01-01, that day being 1.
ToOrdinal(dt) ==
    LET y == dt.year - 1
    IN  y * 365 + (y \div 4) - (y \div 100) + (y \div 400)
        + DaysBeforeMonth(dt.year, dt.month) + dt.day

\* date.weekday(): Monday is 0.
Weekday(dt) == (ToOrdinal(dt) + 6) % 7

SecondOfDay(dt) == dt.hour * 3600 + dt.minute * 60 + dt.second

\* datetime - datetime, as the timedelta's total seconds.
Age(now, dt) ==
    (ToOrdinal(now) - ToOrdinal(dt)) * 86400 + SecondOfDay(now) - SecondOfDay(dt)

(***************************************************************************)
(* datetime.strptime(s, "%Y-%m-%d-%H-%M")                                  *)
(***************************************************************************)

\* Position of the first "-" of s at or after i, Len(s) + 1 when none.
RECURSIVE HyphenFrom(_, _)
HyphenFrom(s, i) ==
    IF i > Len(s) \/ CharAt(s, i) = "-" THEN i ELSE HyphenFrom(s, i + 1)

\* The fields of s from position i on, between its hyphens.
RECURSIVE FieldsFrom(_, _)
FieldsFrom(s, i) ==
    LET h == HyphenFrom(s, i)
    IN  IF h > Len(s) THEN << SubSeq(s, i, Len(s)) >>
        ELSE << SubSeq(s, i, h - 1) >> \o FieldsFrom(s, h + 1)

SplitHyphen(s) == FieldsFrom(s, 1)

AllDigits(f) == \A i \in 1..Len(f) : CharAt(f, i) \in Digits

\* int() of the first n characters of f, all digits.
RECURSIVE ToIntUpTo(_, _)
ToIntUpTo(f, n) ==
    IF n = 0 THEN 0 ELSE 10 * ToIntUpTo(f, n - 1) + DigitVal(CharAt(f, n))

ToInt(f) == ToIntUpTo(f, Len(f))

\* %Y: \d\d\d\d
MatchY(f) == Len(f) = 4 /\ AllDigits(f)

\* %m: 1[0-2]|0[1-9]|[1-9]
MatchM(f) == Len(f) \in {1, 2} /\ AllDigits(f) /\ ToInt(f) \in 1..12

\* %d: 3[01]|[12]\d|0[1-9]|[1-9]| [1-9]
MatchD(f) ==
    \/ Len(f) \in {1, 2} /\ AllDigits(f) /\ ToInt(f) \in 1..31
    \/ Len(f) = 2 /\ CharAt(f, 1) = " " /\ CharAt(f, 2) \in Digits \ {"0"}

\* %H: 2[0-3]|[0-1]\d|\d
MatchH(f) == Len(f) \in {1, 2} /\ AllDigits(f) /\ ToInt(f) \in 0..23

\* %M: [0-5]\d|\d, and no unconverted data may remain after it.
MatchMin(f) == Len(f) \in {1, 2} /\ AllDigits(f) /\ ToInt(f) \in 0..59

DayOf(f) == IF CharAt(f, 1) = " " THEN DigitVal(CharAt(f, 2)) ELSE ToInt(f)

\* The datetime, or ValueError where strptime raises it: the text does not
\* match the format, or the date does not exist (year 0, 30 February).
Strptime(s) ==
    LET f == SplitHyphen(s)
    IN  IF /\ Len(f) = 5
           /\ MatchY(f[1]) /\ MatchM(f[2]) /\ MatchD(f[3])
           /\ MatchH(f[4]) /\ MatchMin(f[5])
           /\ ToInt(f[1]) >= 1
           /\ DayOf(f[3]) <= DaysInMonth(ToInt(f[1]), ToInt(f[2]))
        THEN [year |-> ToInt(f[1]), month |-> ToInt(f[2]), day |-> DayOf(f[3]),
              hour |-> ToInt(f[4]), minute |-> ToInt(f[5]), second |-> 0]
        ELSE ValueError

(***************************************************************************)
(* The retention policy                                                    *)
(***************************************************************************)

\* Faulty variant of ParseOrNone: the ValueError is not caught.
ParseOrNone_Uncaught(timestamp_str) == Strptime(timestamp_str)

\* strptime inside try: except ValueError: return None.
ParseOrNone(timestamp_str) ==
    LET r == Strptime(timestamp_str)
    IN  IF r = ValueError THEN None ELSE r

parse_snapshot_timestamp(snapshot_path) ==
    LET path == RStripSlash(snapshot_path)
    IN  IF ~StartsWith(path, "snapshots/") THEN None
        ELSE ParseOrNone(RemoveAll(path, "snapshots/"))

\* Faulty variant of is_daily_snapshot: the seconds must be 0 as well.
is_daily_snapshot_SecondsToo(snapshot_dt) ==
    snapshot_dt.hour = 0 /\ snapshot_dt.minute = 0 /\ snapshot_dt.second = 0

\* Faulty variant of is_daily_snapshot: the whole midnight hour counts.
is_daily_snapshot_HourOnly(snapshot_dt) == snapshot_dt.hour = 0

is_daily_snapshot(snapshot_dt) == snapshot_dt.hour = 0 /\ snapshot_dt.minute = 0

is_friday_snapshot(snapshot_dt) == Weekday(snapshot_dt) = 4

\* timedelta(days=d, hours=h), in seconds.
Timedelta(d, h) == d * 86400 + h * 3600

\* Faulty variants of Rule1: the boundary belongs to the younger tier; the tier ends
\* at 12 hours.
Rule1_Inclusive(age) == age <= Timedelta(0, 24)

Rule1_TwelveHours(age) == age < Timedelta(0, 12)

\* Faulty variant of Rule3: the boundary belongs to the younger tier.
Rule3_Inclusive(age) == age <= Timedelta(30, 0)

\* The three age tests of the loop body.
Rule1(age) == age < Timedelta(0, 24)

Rule2(age) == age < Timedelta(7, 0)

Rule3(age) == age < Timedelta(30, 0)

\* Faulty variant of Rule3Keeps: any Friday snapshot is kept.
Rule3Keeps_FridayOnly(snapshot_dt) == is_friday_snapshot(snapshot_dt)

\* Faulty variant of Rule3Keeps: every 00:00 snapshot is kept, Friday or not.
Rule3Keeps_AnyMidnight(snapshot_dt) == is_daily_snapshot(snapshot_dt)

\* Rule 3's test of the snapshot itself.
Rule3Keeps(snapshot_dt) ==
    is_friday_snapshot(snapshot_dt) /\ is_daily_snapshot(snapshot_dt)

\* Faulty variant of KeepParsed: rule 1 is missing, the daily rule decides from age 0.
KeepParsed_NoRule1(snapshot_dt, now) ==
    LET age == Age(now, snapshot_dt)
    IN  IF Rule2(age) THEN is_daily_snapshot(snapshot_dt)
        ELSE IF Rule3(age) THEN Rule3Keeps(snapshot_dt)
        ELSE FALSE

\* Faulty variant of KeepParsed: a snapshot of the future is not kept.
KeepParsed_FutureDropped(snapshot_dt, now) ==
    LET age == Age(now, snapshot_dt)
    IN  IF age < 0 THEN FALSE
        ELSE IF Rule1(age) THEN TRUE
        ELSE IF Rule2(age) THEN is_daily_snapshot(snapshot_dt)
        ELSE IF Rule3(age) THEN Rule3Keeps(snapshot_dt)
        ELSE FALSE

\* Faulty variant of KeepParsed: the daily rule is applied in the third tier
\* and nothing is kept in the second.
KeepParsed_DailyInTierC(snapshot_dt, now) ==
    LET age == Age(now, snapshot_dt)
    IN  IF Rule1(age) THEN TRUE
        ELSE IF Rule2(age) THEN FALSE
        ELSE IF Rule3(age) THEN is_daily_snapshot(snapshot_dt)
        ELSE FALSE

\* Faulty variant of KeepParsed: a Friday-midnight snapshot is kept at every
\* age.
KeepParsed_FridayForever(snapshot_dt, now) ==
    LET age == Age(now, snapshot_dt)
    IN  IF Rule1(age) THEN TRUE
        ELSE IF Rule2(age) THEN is_daily_snapshot(snapshot_dt)
        ELSE Rule3Keeps(snapshot_dt)

\* One pass of the loop body, after a successful parse: whether the path is
\* added to to_keep.
KeepParsed(snapshot_dt, now) ==
    LET age == Age(now, snapshot_dt)
    IN  IF Rule1(age) THEN TRUE
        ELSE IF Rule2(age) THEN is_daily_snapshot(snapshot_dt)
        ELSE IF Rule3(age) THEN Rule3Keeps(snapshot_dt)
        ELSE FALSE

\* Faulty variant of KeepPath: an unparsable path is kept.
KeepPath_KeepsUnparsed(snapshot_dt, now) ==
    IF snapshot_dt = None THEN TRUE ELSE KeepParsed(snapshot_dt, now)

\* One pass of the loop body: an unparsable path is skipped.
KeepPath(snapshot_dt, now) ==
    IF snapshot_dt = None THEN FALSE ELSE KeepParsed(snapshot_dt, now)

\* How a call ends: it returns a value, or an exception leaves it.
Returns(v) == [raised |-> "", value |-> v]

Raises(e) == [raised |-> e, value |-> {}]

\* Faulty variant of calculate_snapshots_to_keep: of the snapshots younger
\* than 24 hours, only the earliest of each clock hour is kept.
calculate_snapshots_to_keep_OnePerHour(snapshot_paths, now) ==
    LET snapshot_dt == [i \in 1..Len(snapshot_paths) |->
                          parse_snapshot_timestamp(snapshot_paths[i])]
        recent(i) == snapshot_dt[i] # None /\ Rule1(Age(now, snapshot_dt[i]))
        same_hour(i, j) ==
            /\ ToOrdinal(snapshot_dt[i]) = ToOrdinal(snapshot_dt[j])
            /\ snapshot_dt[i].hour = snapshot_dt[j].hour
        earliest(i) ==
            \A j \in 1..Len(snapshot_paths) :
                (recent(j) /\ same_hour(i, j))
                    => snapshot_dt[i].minute <= snapshot_dt[j].minute
    IN  Returns({ snapshot_paths[i] :
                    i \in { j \in 1..Len(snapshot_paths) :
                              /\ KeepPath(snapshot_dt[j], now)
                              /\ recent(j) => earliest(j) } })

\* Faulty variant of calculate_snapshots_to_keep: a path that occurs twice in
\* the list is not kept.
calculate_snapshots_to_keep_NoDuplicates(snapshot_paths, now) ==
    LET snapshot_dt == [i \in 1..Len(snapshot_paths) |->
                          parse_snapshot_timestamp(snapshot_paths[i])]
    IN  Returns({ snapshot_paths[i] :
                    i \in { j \in 1..Len(snapshot_paths) :
                              /\ KeepPath(snapshot_dt[j], now)
                              /\ \A k \in 1..Len(snapshot_paths) :
                                    k # j => snapshot_paths[k] # snapshot_paths[j] } })

\* The set to_keep returned after the loop over the list snapshot_paths; an
\* exception that a pass of the loop raises leaves the function instead.
calculate_snapshots_to_keep(snapshot_paths, now) ==
    LET snapshot_dt == [i \in 1..Len(snapshot_paths) |->
                          parse_snapshot_timestamp(snapshot_paths[i])]
    IN  IF \E i \in 1..Len(snapshot_paths) : snapshot_dt[i] = ValueError
        THEN Raises("ValueError")
        ELSE Returns({ snapshot_paths[i] :
                         i \in { j \in 1..Len(snapshot_paths) :
                                   KeepPath(snapshot_dt[j], now) } })

(***************************************************************************)
(* The bucket: list_objects_v2 and delete_objects                          *)
(***************************************************************************)

\* Position of the first "/" of s at or after position i, 0 when none.
RECURSIVE FirstSlashFrom(_, _)
FirstSlashFrom(s, i) ==
    IF i > Len(s) THEN 0
    ELSE IF CharAt(s, i) = "/" THEN i
    ELSE FirstSlashFrom(s, i + 1)

\* Faulty variant of KeysUnder: a snapshot prefix is matched up to its day
\* only ("snapshots/YYYY-MM-DD-").
KeysUnder_DayPrefix(bucket, prefix) ==
    LET n == IF Len(prefix) < 21 THEN Len(prefix) ELSE 21
    IN  { k \in bucket : StartsWith(k, SubSeq(prefix, 1, n)) }

\* list_objects_v2(Prefix=prefix): the keys that begin with prefix.
KeysUnder(bucket, prefix) == { k \in bucket : StartsWith(k, prefix) }

\* list_objects_v2(Prefix=prefix, Delimiter="/"): the CommonPrefixes, one for
\* each key with a "/" after the prefix, cut after that "/".
CommonPrefixes(bucket, prefix) ==
    { SubSeq(k, 1, FirstSlashFrom(k, Len(prefix) + 1)) :
        k \in { x \in KeysUnder(bucket, prefix) :
                  FirstSlashFrom(x, Len(prefix) + 1) > 0 } }

\* Faulty variant of list_s3_snapshot_prefixes: the listing has no Prefix.
list_s3_snapshot_prefixes_NoPrefix(bucket) == Sorted(CommonPrefixes(bucket, ""))

\* The list that list_s3_snapshot_prefixes returns.
list_s3_snapshot_prefixes(bucket) == Sorted(CommonPrefixes(bucket, "snapshots/"))

(***************************************************************************)
(* Inputs of the model                                                     *)
(***************************************************************************)

DT(y, mo, d, h, mi, sec) ==
    [year |-> y, month |-> mo, day |-> d, hour |-> h, minute |-> mi, second |-> sec]

\* Readings of the clock (datetime.now(timezone.utc)): Friday noon, the same
\* with seconds, the midnight after it, and a midnight thirty days after a
\* Friday.
Clock ==
    { DT(2026, 2, 27, 12, 0, 0), DT(2026, 2, 27, 12, 0, 30),
      DT(2026, 2, 28, 0, 0, 0), DT(2026, 3, 1, 0, 0, 0) }

\* Object keys a bucket may hold.
Keys ==
    { "snapshots/2026-02-27-10-15/a", "snapshots/2026-02-27-10-15/b",
      "snapshots/2026-02-26-12-00/a", "snapshots/2026-02-26-00-00/a",
      "snapshots/2026-02-20-00-00/a", "snapshots/2026-02-19-00-00/a",
      "snapshots/2026-01-30-00-00/a", "snapshots/2026-01-23-00-00/a",
      "snapshots/not-a-date/a", "snapshots/x", "latest/a" }

\* Largest number of objects in the bucket at the start.
MaxObjects == 3

\* Run identifiers; a behaviour runs those in the variable runs.
RunIds == {1, 2}

(***************************************************************************)
(* State                                                                   *)
(***************************************************************************)

VARIABLES
    bucket,         \* the object keys in the S3 bucket
    bucket0,        \* the bucket before any run (history)
    runs,           \* the lifecycle runs of this behaviour
    pc,             \* per run: "start", "evaluate", "delete", "done", "failed"
    dry_run,        \* per run: the --dry-run flag
    all_snapshots,  \* per run: the list of listed prefixes
    now,            \* per run: the clock reading of calculate_snapshots_to_keep
    to_keep,        \* per run: the set to keep
    to_delete,      \* per run: sorted(to_delete)
    calls,          \* per run: the prefixes passed to delete_s3_prefix, in order
    requests,       \* per run: the keys passed to s3.delete_objects
    log,            \* per run: the per-prefix log lines <<kind, prefix, count>>
    failed,         \* per run: the prefixes whose delete_s3_prefix raised
    exit_code,      \* per run: what main returned, -1 while it runs
    snapshot_paths, \* a direct call of the evaluator: its list
    base_now,       \* a direct call of the evaluator: its clock reading
    keep1,          \* the result at base_now
    keep2,          \* the result at base_now + 1 hour
    instant,        \* a direct call of the predicates: its datetime dt
    daily,          \* << is_daily_snapshot(dt) >> once called, << >> before
    friday,         \* << is_friday_snapshot(dt) >> once called, << >> before
    base_cidr,      \* a call of allocate_ipv4_subnets: its base_cidr
    subnet_count,   \* its subnet_count
    subnet_prefix,  \* its subnet_prefix
    subnets,        \* what the call returned or raised
    ecr_repository_url, \* a call of extract_ecr_registry_domain: its argument
    registry_domain     \* what the call returned or raised

runVars == << pc, dry_run, all_snapshots, now, to_keep, to_delete, calls,
              requests, log, failed, exit_code >>

evalVars == << snapshot_paths, base_now, keep1, keep2 >>

predVars == << instant, daily, friday >>

helperVars == << base_cidr, subnet_count, subnet_prefix, subnets,
                 ecr_repository_url, registry_domain >>

vars == << bucket, bucket0, runs, runVars, evalVars, predVars, helperVars >>

\* A result not computed yet.
Unset == [raised |-> "unset", value |-> {}]

(***************************************************************************)
(* apply_lifecycle_policy and main, one run r                              *)
(***************************************************************************)

RunInit(active) ==
    /\ bucket \in { b \in SUBSET Keys : Cardinality(b) <= MaxObjects }
    /\ bucket0 = bucket
    /\ runs = active
    /\ pc = [r \in RunIds |-> "start"]
    /\ dry_run \in [RunIds -> BOOLEAN]
    /\ \A r \in RunIds \ active : dry_run[r] = FALSE
    /\ all_snapshots = [r \in RunIds |-> << >>]
    /\ now = [r \in RunIds |-> None]
    /\ to_keep = [r \in RunIds |-> {}]
    /\ to_delete = [r \in RunIds |-> << >>]
    /\ calls = [r \in RunIds |-> << >>]
    /\ requests = [r \in RunIds |-> {}]
    /\ log = [r \in RunIds |-> << >>]
    /\ failed = [r \in RunIds |-> {}]
    /\ exit_code = [r \in RunIds |-> -1]

EvalIdle ==
    /\ snapshot_paths = << >>
    /\ base_now = None
    /\ keep1 = Unset
    /\ keep2 = Unset

PredIdle ==
    /\ instant = None
    /\ daily = << >>
    /\ friday = << >>

\* A call of a helper that has not returned yet.
Pending == [raised |-> "pending"]

NetIdle ==
    /\ base_cidr = ""
    /\ subnet_count = 0
    /\ subnet_prefix = 0
    /\ subnets = Pending

EcrIdle ==
    /\ ecr_repository_url = ""
    /\ registry_domain = Pending

HelperIdle == NetIdle /\ EcrIdle

Init == RunInit({1}) /\ EvalIdle /\ PredIdle /\ HelperIdle

\* Line 212: the listing succeeds.
List(r) ==
    /\ pc[r] = "start"
    /\ all_snapshots' = [all_snapshots EXCEPT ![r] = list_s3_snapshot_prefixes(bucket)]
    /\ pc' = [pc EXCEPT ![r] = "evaluate"]
    /\ UNCHANGED << bucket, bucket0, runs, dry_run, now, to_keep, to_delete,
                    calls, requests, log, failed, exit_code, evalVars, predVars, helperVars >>

\* Faulty variant of ListFail: main swallows the exception and returns 0.
ListFail_ExitZero(r) ==
    /\ pc[r] = "start"
    /\ pc' = [pc EXCEPT ![r] = "failed"]
    /\ exit_code' = [exit_code EXCEPT ![r] = 0]
    /\ UNCHANGED << bucket, bucket0, runs, dry_run, all_snapshots, now, to_keep,
                    to_delete, calls, requests, log, failed, evalVars, predVars, helperVars >>

\* Line 212: the listing raises; main catches it and returns 1.
ListFail(r) ==
    /\ pc[r] = "start"
    /\ pc' = [pc EXCEPT ![r] = "failed"]
    /\ exit_code' = [exit_code EXCEPT ![r] = 1]
    /\ UNCHANGED << bucket, bucket0, runs, dry_run, all_snapshots, now, to_keep,
                    to_delete, calls, requests, log, failed, evalVars, predVars, helperVars >>

\* Lines 216-226: the clock is read once, the keep set and the sorted
\* deletion list are computed; with nothing to delete the run is complete.
\* An exception of the evaluator would reach main, which returns 1.
Evaluate(r) ==
    /\ pc[r] = "evaluate"
    /\ \E n \in Clock :
         LET res  == calculate_snapshots_to_keep(all_snapshots[r], n)
             keep == res.value
             del  == Sorted(Range(all_snapshots[r]) \ keep)
         IN  /\ now' = [now EXCEPT ![r] = n]
             /\ IF res.raised # ""
                THEN /\ pc' = [pc EXCEPT ![r] = "failed"]
                     /\ exit_code' = [exit_code EXCEPT ![r] = 1]
                     /\ UNCHANGED << to_keep, to_delete >>
                ELSE /\ to_keep' = [to_keep EXCEPT ![r] = keep]
                     /\ to_delete' = [to_delete EXCEPT ![r] = del]
                     /\ pc' = [pc EXCEPT ![r] =
                                 IF del = << >> THEN "done" ELSE "delete"]
                     /\ exit_code' = [exit_code EXCEPT ![r] =
                                        IF del = << >> THEN 0 ELSE -1]
    /\ UNCHANGED << bucket, bucket0, runs, dry_run, all_snapshots, calls,
                    requests, log, failed, evalVars, predVars, helperVars >>

\* Faulty variant of NextPrefix: the loop goes through the list backwards.
NextPrefix_Descending(r) == to_delete[r][Len(to_delete[r]) - Len(calls[r])]

\* The prefix of the next pass of the loop of line 223.
NextPrefix(r) == to_delete[r][Len(calls[r]) + 1]

\* Faulty variant of DeletePrefix: a prefix without objects is an error of the
\* bucket, which ends the run as in DeletePrefixFail.
DeletePrefix_MissingIsError(r) ==
    /\ pc[r] = "delete"
    /\ LET prefix  == NextPrefix(r)
           objects == KeysUnder(bucket, prefix)
           last    == Len(calls[r]) + 1 = Len(to_delete[r])
       IN  /\ calls' = [calls EXCEPT ![r] = Append(@, prefix)]
           /\ IF objects = {}
              THEN /\ failed' = [failed EXCEPT ![r] = @ \cup {prefix}]
                   /\ pc' = [pc EXCEPT ![r] = "failed"]
                   /\ exit_code' = [exit_code EXCEPT ![r] = 1]
                   /\ UNCHANGED << bucket, requests, log >>
              ELSE /\ IF dry_run[r]
                      THEN /\ log' = [log EXCEPT ![r] =
                                        Append(@, << "would delete", prefix,
                                                     Cardinality(objects) >>)]
                           /\ UNCHANGED << bucket, requests >>
                      ELSE /\ bucket' = bucket \ objects
                           /\ requests' = [requests EXCEPT ![r] = @ \cup objects]
                           /\ log' = [log EXCEPT ![r] =
                                        Append(@, << "deleted", prefix,
                                                     Cardinality(objects) >>)]
                   /\ pc' = [pc EXCEPT ![r] = IF last THEN "done" ELSE "delete"]
                   /\ exit_code' = [exit_code EXCEPT ![r] = IF last THEN 0 ELSE -1]
                   /\ UNCHANGED failed
    /\ UNCHANGED << bucket0, runs, dry_run, all_snapshots, now, to_keep,
                    to_delete, evalVars, predVars, helperVars >>

\* Faulty variant of DeletePrefix: only one object of the prefix is deleted.
DeletePrefix_FirstKeyOnly(r) ==
    /\ pc[r] = "delete"
    /\ LET prefix  == NextPrefix(r)
           objects == KeysUnder(bucket, prefix)
           first   == IF objects = {} THEN {} ELSE { CHOOSE k \in objects : TRUE }
           last    == Len(calls[r]) + 1 = Len(to_delete[r])
       IN  /\ calls' = [calls EXCEPT ![r] = Append(@, prefix)]
           /\ IF objects = {}
              THEN UNCHANGED << bucket, requests, log >>
              ELSE IF dry_run[r]
              THEN /\ log' = [log EXCEPT ![r] =
                                Append(@, << "would delete", prefix, Cardinality(objects) >>)]
                   /\ UNCHANGED << bucket, requests >>
              ELSE /\ bucket' = bucket \ first
                   /\ requests' = [requests EXCEPT ![r] = @ \cup first]
                   /\ log' = [log EXCEPT ![r] =
                                Append(@, << "deleted", prefix, Cardinality(first) >>)]
           /\ pc' = [pc EXCEPT ![r] = IF last THEN "done" ELSE "delete"]
           /\ exit_code' = [exit_code EXCEPT ![r] = IF last THEN 0 ELSE -1]
    /\ UNCHANGED << bucket0, runs, dry_run, all_snapshots, now, to_keep,
                    to_delete, failed, evalVars, predVars, helperVars >>

\* Lines 223-224, 179-196: one pass of the loop, delete_s3_prefix returning.
\* The prefix's keys come in one page; a page without keys is skipped.
DeletePrefix(r) ==
    /\ pc[r] = "delete"
    /\ LET prefix  == NextPrefix(r)
           objects == KeysUnder(bucket, prefix)
           last    == Len(calls[r]) + 1 = Len(to_delete[r])
       IN  /\ calls' = [calls EXCEPT ![r] = Append(@, prefix)]
           /\ IF objects = {}
              THEN UNCHANGED << bucket, requests, log >>
              ELSE IF dry_run[r]
              THEN /\ log' = [log EXCEPT ![r] =
                                Append(@, << "would delete", prefix, Cardinality(objects) >>)]
                   /\ UNCHANGED << bucket, requests >>
              ELSE /\ bucket' = bucket \ objects
                   /\ requests' = [requests EXCEPT ![r] = @ \cup objects]
                   /\ log' = [log EXCEPT ![r] =
                                Append(@, << "deleted", prefix, Cardinality(objects) >>)]
           /\ pc' = [pc EXCEPT ![r] = IF last THEN "done" ELSE "delete"]
           /\ exit_code' = [exit_code EXCEPT ![r] = IF last THEN 0 ELSE -1]
    /\ UNCHANGED << bucket0, runs, dry_run, all_snapshots, now, to_keep,
                    to_delete, failed, evalVars, predVars, helperVars >>

\* Lines 223-224, 246-250: delete_s3_prefix raises (the page listing of line
\* 179 or, when not a dry run, delete_objects of line 192 fails); nothing
\* catches it before main, which returns 1.
DeletePrefixFail(r) ==
    /\ pc[r] = "delete"
    /\ calls' = [calls EXCEPT ![r] = Append(@, NextPrefix(r))]
    /\ failed' = [failed EXCEPT ![r] = @ \cup {NextPrefix(r)}]
    /\ pc' = [pc EXCEPT ![r] = "failed"]
    /\ exit_code' = [exit_code EXCEPT ![r] = 1]
    /\ UNCHANGED << bucket, bucket0, runs, dry_run, all_snapshots, now, to_keep,
                    to_delete, requests, log, evalVars, predVars, helperVars >>

\* What apply_lifecycle_policy returns to main when no exception leaves it:
\* it has no return statement.
apply_lifecycle_policy_result(r) == None

Next ==
    \/ \E r \in runs : List(r)
    \/ \E r \in runs : ListFail(r)
    \/ \E r \in runs : Evaluate(r)
    \/ \E r \in runs : DeletePrefix(r)
    \/ \E r \in runs : DeletePrefixFail(r)

Spec == Init /\ [][Next]_vars

(***************************************************************************)
(* Two runs that overlap on a bucket that answers every request            *)
(***************************************************************************)

\* Object keys of the buckets on which two runs work: snapshots that every
\* clock reading keeps, that some keep, that none keeps, an unparsable
\* prefix, and latest/.
TwoRunKeys ==
    { "snapshots/2026-02-27-10-15/a", "snapshots/2026-02-27-10-15/b",
      "snapshots/2026-02-26-12-00/a", "snapshots/2026-02-26-00-00/a",
      "snapshots/2026-01-23-00-00/a", "snapshots/not-a-date/a", "latest/a" }

\* Both runs delete: neither has --dry-run.
ConcInit ==
    /\ RunInit(RunIds)
    /\ bucket \subseteq TwoRunKeys
    /\ \A r \in RunIds : ~dry_run[r]
    /\ EvalIdle
    /\ PredIdle
    /\ HelperIdle

\* The steps of the runs interleave; the requests to the bucket succeed, so
\* that a run can only fail by what the other run did.
ConcNext ==
    \/ \E r \in runs : List(r)
    \/ \E r \in runs : Evaluate(r)
    \/ \E r \in runs : DeletePrefix(r)

ConcSpec == ConcInit /\ [][ConcNext]_vars

(***************************************************************************)
(* Two runs one after the other                                            *)
(***************************************************************************)

\* main has returned.
Ended(r) == exit_code[r] # -1

\* Run r starts when the runs before it have ended.
Turn(r) == \A q \in runs : q < r => Ended(q)

\* The first run deletes; the second may be a dry run.
SeqInit ==
    /\ RunInit(RunIds)
    /\ bucket \subseteq TwoRunKeys
    /\ ~dry_run[1]
    /\ EvalIdle
    /\ PredIdle
    /\ HelperIdle

SeqNext ==
    \/ \E r \in runs : Turn(r) /\ List(r)
    \/ \E r \in runs : Turn(r) /\ ListFail(r)
    \/ \E r \in runs : Evaluate(r)
    \/ \E r \in runs : DeletePrefix(r)
    \/ \E r \in runs : DeletePrefixFail(r)

SeqSpec == SeqInit /\ [][SeqNext]_vars

(***************************************************************************)
(* Direct calls of calculate_snapshots_to_keep, as the tests make them     *)
(***************************************************************************)

\* Paths given to the evaluator: snapshots of every tier around the clock
\* readings, on and off midnight and Friday, and paths of other shapes.
Paths ==
    { "snapshots/2026-03-05-08-00/",
      "snapshots/2026-02-27-10-15/", "snapshots/2026-02-27-00-15/",
      "snapshots/2026-02-27-00-00/",
      "snapshots/2026-02-26-12-30/", "snapshots/2026-02-26-12-00/",
      "snapshots/2026-02-26-00-15/", "snapshots/2026-02-26-00-00/",
      "snapshots/2026-02-21-00-00/", "snapshots/2026-02-20-12-00/",
      "snapshots/2026-02-20-00-00/", "snapshots/2026-02-19-00-00/",
      "snapshots/2026-01-30-00-00/", "snapshots/2026-01-23-00-00/",
      "snapshots/2026-02-27-10-15", "snapshots/2026-2-27-9-5/",
      "snapshots/not-a-date/", "snapshots/2026-02-30-00-00/",
      "latest/2026-02-27-10-15/", "" }

\* Longest list given to the evaluator.
MaxPaths == 2

RECURSIVE ListsUpTo(_, _)
ListsUpTo(S, n) ==
    IF n = 0 THEN { << >> }
    ELSE LET shorter == ListsUpTo(S, n - 1)
         IN  shorter \cup { Append(l, x) : l \in { m \in shorter : Len(m) = n - 1 },
                                           x \in S }

\* datetime + timedelta(hours=1)
PlusHour(dt) ==
    IF dt.hour < 23 THEN [dt EXCEPT !.hour = @ + 1]
    ELSE IF dt.day < DaysInMonth(dt.year, dt.month)
         THEN [dt EXCEPT !.hour = 0, !.day = @ + 1]
    ELSE IF dt.month < 12
         THEN [dt EXCEPT !.hour = 0, !.day = 1, !.month = @ + 1]
    ELSE [dt EXCEPT !.hour = 0, !.day = 1, !.month = 1, !.year = @ + 1]

RunIdle ==
    /\ bucket = {}
    /\ bucket0 = {}
    /\ runs = {}
    /\ pc = [r \in RunIds |-> "start"]
    /\ dry_run = [r \in RunIds |-> FALSE]
    /\ all_snapshots = [r \in RunIds |-> << >>]
    /\ now = [r \in RunIds |-> None]
    /\ to_keep = [r \in RunIds |-> {}]
    /\ to_delete = [r \in RunIds |-> << >>]
    /\ calls = [r \in RunIds |-> << >>]
    /\ requests = [r \in RunIds |-> {}]
    /\ log = [r \in RunIds |-> << >>]
    /\ failed = [r \in RunIds |-> {}]
    /\ exit_code = [r \in RunIds |-> -1]

EvalInit ==
    /\ RunIdle
    /\ PredIdle
    /\ HelperIdle
    /\ snapshot_paths \in ListsUpTo(Paths, MaxPaths)
    /\ base_now \in Clock
    /\ keep1 = Unset
    /\ keep2 = Unset

\* keep1 = calculate_snapshots_to_keep(snapshots, base_now)
EvaluateAtNow ==
    /\ keep1 = Unset
    /\ keep1' = calculate_snapshots_to_keep(snapshot_paths, base_now)
    /\ UNCHANGED << bucket, bucket0, runs, runVars, snapshot_paths, base_now, keep2,
                    predVars, helperVars >>

\* keep2 = calculate_snapshots_to_keep(snapshots, base_now + timedelta(hours=1))
EvaluateHourLater ==
    /\ keep1 # Unset
    /\ keep2 = Unset
    /\ keep2' = calculate_snapshots_to_keep(snapshot_paths, PlusHour(base_now))
    /\ UNCHANGED << bucket, bucket0, runs, runVars, snapshot_paths, base_now, keep1,
                    predVars, helperVars >>

EvalNext == EvaluateAtNow \/ EvaluateHourLater

EvalSpec == EvalInit /\ [][EvalNext]_vars

(***************************************************************************)
(* Direct calls of is_daily_snapshot and is_friday_snapshot                *)
(***************************************************************************)

\* Datetimes given to the predicates: Thursday 2026-02-26 to Saturday
\* 2026-02-28, in and around the midnight hour, with and without seconds.
Instants ==
    { DT(2026, 2, d, h, mi, sec) :
        d \in {26, 27, 28}, h \in {0, 1, 14, 23}, mi \in {0, 15, 30, 59},
        sec \in {0, 59} }

PredInit ==
    /\ RunIdle
    /\ EvalIdle
    /\ HelperIdle
    /\ instant \in Instants
    /\ daily = << >>
    /\ friday = << >>

\* is_daily_snapshot(dt)
CallIsDaily ==
    /\ daily = << >>
    /\ daily' = << is_daily_snapshot(instant) >>
    /\ UNCHANGED << bucket, bucket0, runs, runVars, evalVars, instant, friday,
                    helperVars >>

\* is_friday_snapshot(dt)
CallIsFriday ==
    /\ friday = << >>
    /\ friday' = << is_friday_snapshot(instant) >>
    /\ UNCHANGED << bucket, bucket0, runs, runVars, evalVars, instant, daily,
                    helperVars >>

PredNext == CallIsDaily \/ CallIsFriday

PredSpec == PredInit /\ [][PredNext]_vars

(***************************************************************************)
(* Properties of the evaluator, checked under EvalSpec                     *)
(***************************************************************************)

\* What the properties say of a path: whether it parses, its instant, its
\* age in seconds at a clock reading, its place in the week.
Parsed == [p \in Paths |-> parse_snapshot_timestamp(p)]

Valid(p) == Parsed[p] # None

Instant(p) == Parsed[p]

\* The clock readings of the calls.
Readings == Clock \cup { PlusHour(c) : c \in Clock }

Ages == [p \in { x \in Paths : Valid(x) }, n \in Readings |-> Age(n, Instant(p))]

AgeAt(p, n) == Ages[p, n]

AtMidnight(p) == Instant(p).hour = 0 /\ Instant(p).minute = 0

OnFriday(p) == Weekday(Instant(p)) = 4

H24 == 24 * 3600

D7 == 7 * 86400

D30 == 30 * 86400

\* The calls made so far, each with its clock reading, and those of them
\* that returned.
Calls ==
    { e \in { [res |-> keep1, at |-> base_now],
              [res |-> keep2, at |-> IF base_now = None THEN None
                                     ELSE PlusHour(base_now)] } :
        e.res # Unset }

Evaluations == { e \in Calls : e.res.raised = "" }

\* The evaluator's result for the one-path list of each path, at each clock
\* reading of a call.
Alone == [p \in Paths, n \in Readings |-> calculate_snapshots_to_keep(<< p >>, n)]

InputPaths == Range(snapshot_paths)

C3_DailyTier ==
    \A e \in Evaluations : \A p \in InputPaths :
        (Valid(p) /\ H24 <= AgeAt(p, e.at) /\ AgeAt(p, e.at) < D7)
            => (p \in e.res.value <=> AtMidnight(p))

\* In the daily tier: a 00:00 snapshot kept beside a 00:15 snapshot dropped.
C3_Witness ==
    \E e \in Evaluations : \E p, q \in InputPaths :
        /\ Valid(p) /\ H24 <= AgeAt(p, e.at) /\ AgeAt(p, e.at) < D7
        /\ Valid(q) /\ H24 <= AgeAt(q, e.at) /\ AgeAt(q, e.at) < D7
        /\ AtMidnight(p) /\ p \in e.res.value
        /\ Instant(q).hour = 0 /\ Instant(q).minute # 0 /\ q \notin e.res.value

\* C4: a valid identifier aged 7 days or more and less than 30 days is in the
\* keep-set if and only if its instant is at 00:00 and on a Friday; a Friday
\* instant off 00:00 is not kept.
C4_FridayTier ==
    \A e \in Evaluations : \A p \in InputPaths :
        (Valid(p) /\ D7 <= AgeAt(p, e.at) /\ AgeAt(p, e.at) < D30)
            => (p \in e.res.value <=> (AtMidnight(p) /\ OnFriday(p)))

\* In the Friday tier: Friday 2026-02-20 00:00 kept beside a Friday snapshot
\* off midnight dropped.
C4_Witness ==
    \E e \in Evaluations : \E p, q \in InputPaths :
        /\ p = "snapshots/2026-02-20-00-00/" /\ OnFriday(p)
        /\ D7 <= AgeAt(p, e.at) /\ AgeAt(p, e.at) < D30 /\ p \in e.res.value
        /\ Valid(q) /\ D7 <= AgeAt(q, e.at) /\ AgeAt(q, e.at) < D30
        /\ OnFriday(q) /\ ~AtMidnight(q) /\ q \notin e.res.value

\* C5: a valid identifier aged 30 days or more is never in the keep-set,
\* exactly 30 days and Friday midnight included.
C5_OldNeverKept ==
    \A e \in Evaluations : \A p \in InputPaths :
        (Valid(p) /\ AgeAt(p, e.at) >= D30) => p \notin e.res.value

\* A Friday-midnight snapshot aged exactly 30 days, dropped.
C5_Witness ==
    \E e \in Evaluations : \E p \in InputPaths :
        /\ Valid(p) /\ AgeAt(p, e.at) = D30 /\ AtMidnight(p) /\ OnFriday(p)
        /\ p \notin e.res.value

\* C6: at exactly 24 hours an identifier off 00:00 is not kept (the daily
\* rule decides), and at exactly 7 days an identifier that is not a Friday
\* midnight is not kept (the Friday rule decides).
C6_BoundariesInclusive ==
    \A e \in Evaluations : \A p \in InputPaths :
        /\ (Valid(p) /\ AgeAt(p, e.at) = H24 /\ ~AtMidnight(p))
              => p \notin e.res.value
        /\ (Valid(p) /\ AgeAt(p, e.at) = D7 /\ ~(AtMidnight(p) /\ OnFriday(p)))
              => p \notin e.res.value

\* A Saturday-midnight snapshot aged exactly 7 days, which the daily rule
\* would keep, dropped.
C6_Witness ==
    \E e \in Evaluations : \E p \in InputPaths :
        /\ Valid(p) /\ AgeAt(p, e.at) = D7 /\ AtMidnight(p) /\ ~OnFriday(p)
        /\ p \notin e.res.value

\* No valid input path crosses 24 hours, 7 days or 30 days of age between
\* base_now and one hour later.
NoCrossing ==
    \A p \in InputPaths : Valid(p) =>
        \A b \in {H24, D7, D30} :
            ~(AgeAt(p, base_now) < b /\ b <= AgeAt(p, base_now) + 3600)

\* C7: when no identifier crosses a tier boundary between now and now + 1
\* hour, the keep-set at now equals the keep-set at now + 1 hour.
C7_HourlyIdempotence ==
    (keep1.raised = "" /\ keep2.raised = "" /\ NoCrossing)
        => keep1.value = keep2.value

\* Two evaluations an hour apart without a crossing, one path kept and one
\* dropped by both.
C7_Witness ==
    /\ keep1.raised = "" /\ keep2.raised = "" /\ NoCrossing
    /\ \E p, q \in InputPaths :
          /\ Valid(p) /\ Valid(q)
          /\ p \in keep1.value /\ p \in keep2.value
          /\ q \notin keep1.value /\ q \notin keep2.value

\* C8: the evaluator raises nothing; a path that does not parse is left out
\* of the keep-set, and every other path is decided as it is when evaluated
\* alone.
C8_MalformedSkipped ==
    \A e \in Calls :
        /\ e.res.raised = ""
        /\ \A p \in InputPaths :
              IF ~Valid(p)
              THEN p \notin e.res.value
              ELSE p \in e.res.value <=> p \in Alone[p, e.at].value

\* A path with a wrong prefix and a path that is no date, each beside a kept
\* snapshot.
C8_Witness ==
    /\ keep1.raised = ""
    /\ \E p, q \in InputPaths :
          /\ p \in {"latest/2026-02-27-10-15/", "snapshots/not-a-date/"}
          /\ p \notin keep1.value
          /\ q \in keep1.value

(***************************************************************************)
(* Properties of the executor, checked under Spec                          *)
(***************************************************************************)

\* C1: in an execution that is not a dry run, the identifiers passed to
\* delete_s3_prefix are exactly the listed identifiers outside the keep-set.
C1_DeletesExactlyComplement ==
    \A r \in runs :
        (~dry_run[r] /\ Ended(r))
            => Range(calls[r]) = Range(all_snapshots[r]) \ to_keep[r]

\* The part of C1 that every run keeps, ended or not: what is passed to
\* delete_s3_prefix was listed and is outside the keep-set.
OnlyComplementDeleted ==
    \A r \in runs : Range(calls[r]) \subseteq Range(all_snapshots[r]) \ to_keep[r]

\* C9: a dry run leaves the bucket as it was and issues no delete_objects,
\* and it visits every identifier of the deletion set and logs the object
\* count of each (of each whose own listing did not fail).
C9_DryRunVisitsAllChangesNothing ==
    \A r \in runs :
        dry_run[r] =>
            /\ bucket = bucket0
            /\ requests[r] = {}
            /\ Ended(r) =>
                  \A i \in 1..Len(to_delete[r]) :
                      /\ to_delete[r][i] \in Range(calls[r])
                      /\ to_delete[r][i] \notin failed[r] =>
                            << "would delete", to_delete[r][i],
                               Cardinality(KeysUnder(bucket0, to_delete[r][i])) >>
                               \in Range(log[r])

\* The part of C9 that every dry run keeps: nothing is deleted.
DryRunChangesNothing ==
    \A r \in runs : dry_run[r] => (bucket = bucket0 /\ requests[r] = {})

\* C10: when the deletion of one identifier fails, the deletion of every
\* other identifier of the deletion set is still attempted in the same run.
C10_FailureIsolated ==
    \A r \in runs :
        (Ended(r) /\ failed[r] # {})
            => \A i \in 1..Len(to_delete[r]) : to_delete[r][i] \in Range(calls[r])

\* What the code does instead: the first failure is the last call.
FailureEndsTheRun ==
    \A r \in runs :
        failed[r] # {} =>
            /\ pc[r] = "failed" /\ exit_code[r] = 1
            /\ failed[r] = { calls[r][Len(calls[r])] }

\* The run ended in the listing of line 212: an exception left
\* apply_lifecycle_policy before the clock was read.
ListingFailed(r) == pc[r] = "failed" /\ now[r] = None

\* The run has computed its keep set.
Evaluated(r) == now[r] # None /\ pc[r] # "evaluate"

\* C11: when the listing fails the run deletes nothing, the bucket is as it
\* was, and main returns a non-zero exit code.
C11_ListingFailureAborts ==
    \A r \in runs :
        ListingFailed(r) =>
            /\ bucket = bucket0
            /\ calls[r] = << >>
            /\ requests[r] = {}
            /\ exit_code[r] \notin {-1, 0}

\* A failed listing of a bucket that holds snapshots to delete.
C11_Witness ==
    \E r \in runs :
        /\ ListingFailed(r)
        /\ "snapshots/2026-01-23-00-00/a" \in bucket
        /\ exit_code[r] = 1

\* C12: whenever the listing succeeded the exit code is 0, also when the
\* deletion of an identifier failed.
C12_ExitZeroAfterListing ==
    \A r \in runs : (Ended(r) /\ ~ListingFailed(r)) => exit_code[r] = 0

\* The listed identifiers that do not parse.
Malformed(r) ==
    { p \in Range(all_snapshots[r]) : parse_snapshot_timestamp(p) = None }

\* C13: a listed identifier that does not parse is outside the keep-set and
\* in the deletion set, and an execution that is not a dry run calls
\* delete_s3_prefix on it.
C13_MalformedDeleted ==
    \A r \in runs :
        (Evaluated(r) /\ ~dry_run[r] /\ Ended(r)) =>
            \A p \in Malformed(r) :
                /\ p \notin to_keep[r]
                /\ p \in Range(to_delete[r])
                /\ p \in Range(calls[r])

\* The part of C13 that every run keeps: the unparsable identifiers are
\* outside the keep-set and in the deletion list.
MalformedInDeletionSet ==
    \A r \in runs :
        Evaluated(r) =>
            \A p \in Malformed(r) : p \notin to_keep[r] /\ p \in Range(to_delete[r])

\* Every listed identifier is unparsable, and there is one at least.
AllInvalid(r) ==
    all_snapshots[r] # << >> /\ Malformed(r) = Range(all_snapshots[r])

After(b, n) ==
    LET listed == list_s3_snapshot_prefixes(b)
        keep   == calculate_snapshots_to_keep(listed, n).value
    IN  b \ UNION { KeysUnder(b, prefix) : prefix \in Range(listed) \ keep }

\* Every run has read the clock, and all read the same instant.
SameClock ==
    /\ \A r \in runs : Evaluated(r)
    /\ \A r, q \in runs : now[r] = now[q]

\* C15: when runs overlap with the same clock reading, no run fails for what
\* the other deleted, no object of a kept identifier is deleted, and once
\* all have ended the bucket is what a single run leaves.
C15_OverlapSafe ==
    SameClock =>
        /\ \A r \in runs : pc[r] # "failed" /\ exit_code[r] \in {-1, 0}
        /\ \A r \in runs : \A prefix \in to_keep[r] :
              KeysUnder(bucket0, prefix) \subseteq bucket
        /\ (\A r \in runs : Ended(r)) =>
              bucket = IF \E r \in runs : ~dry_run[r]
                       THEN After(bucket0, now[1])
                       ELSE bucket0

\* Two runs that listed the same bucket before either deleted: each deleted
\* the objects of one identifier and found those of the other gone, a third
\* identifier is kept.
C15_Witness ==
    /\ runs = {1, 2}
    /\ SameClock
    /\ \A r \in runs :
          /\ exit_code[r] = 0 /\ ~dry_run[r]
          /\ all_snapshots[r] = list_s3_snapshot_prefixes(bucket0)
          /\ Len(calls[r]) = 2
          /\ requests[r] # {}
    /\ requests[1] \cap requests[2] = {}
    /\ to_keep[1] # {}

(***************************************************************************)
(* Properties of a run after a run, checked under SeqSpec                  *)
(***************************************************************************)

\* Run 1 was not a dry run and returned 0; run 2 has listed what run 1 left
\* and evaluated it at the same clock reading.
SecondAfterClean ==
    /\ runs = {1, 2}
    /\ ~dry_run[1] /\ exit_code[1] = 0
    /\ Evaluated(2) /\ now[2] = now[1]

\* C16: after an execution that deleted without failure, a second execution
\* at the same clock reading lists exactly what the first kept, keeps all
\* of it, has an empty deletion list and leaves the bucket as the first
\* left it.
C16_SecondRunDeletesNothing ==
    SecondAfterClean =>
        /\ Range(all_snapshots[2]) = to_keep[1]
        /\ to_keep[2] = Range(all_snapshots[2])
        /\ to_delete[2] = << >>
        /\ calls[2] = << >> /\ requests[2] = {}
        /\ bucket = bucket0 \ requests[1]
        /\ exit_code[2] = 0

\* A first run that deleted objects and kept an identifier, then a second
\* run that is no dry run and ends with nothing to delete.
C16_Witness ==
    /\ SecondAfterClean
    /\ requests[1] # {}
    /\ to_keep[1] # {}
    /\ ~dry_run[2]
    /\ pc[2] = "done"
    /\ bucket # bucket0

(***************************************************************************)
(* Properties of the parser and of rule 1, checked under EvalSpec          *)
(***************************************************************************)

\* The identifier format: "snapshots/" and then YYYY-MM-DD-HH-mm, every
\* field of its full width, naming an instant that exists; one "/" may
\* follow.
Canonical(p) ==
    LET n    == IF Len(p) > 0 /\ CharAt(p, Len(p)) = "/" THEN Len(p) - 1 ELSE Len(p)
        rest == SubSeq(p, 11, n)
    IN  /\ n = 26
        /\ SubSeq(p, 1, 10) = "snapshots/"
        /\ \A i \in {5, 8, 11, 14} : CharAt(rest, i) = "-"
        /\ \A i \in (1..16) \ {5, 8, 11, 14} : CharAt(rest, i) \in Digits
        /\ LET y  == ToInt(SubSeq(rest, 1, 4))
               mo == ToInt(SubSeq(rest, 6, 7))
               d  == ToInt(SubSeq(rest, 9, 10))
               h  == ToInt(SubSeq(rest, 12, 13))
               mi == ToInt(SubSeq(rest, 15, 16))
           IN  /\ y >= 1 /\ mo \in 1..12 /\ h \in 0..23 /\ mi \in 0..59
               /\ d >= 1 /\ d <= DaysInMonth(y, mo)

\* C17: a path given to the evaluator parses to an instant if and only if
\* it has the identifier format exactly, and it parses to the same instant
\* with and without the trailing slash.
C17_ParsesExactFormat ==
    Calls # {} =>
        \A p \in InputPaths :
            /\ Valid(p) <=> Canonical(p)
            /\ \A q \in Paths : q = p \o "/" => Parsed[q] = Parsed[p]

\* The part of C17 that the parser keeps: an identifier of the exact format
\* parses, to the same instant with and without the trailing slash.
CanonicalParses ==
    \A p \in InputPaths :
        /\ Canonical(p) => Valid(p)
        /\ \A q \in Paths : q = p \o "/" => Parsed[q] = Parsed[p]

\* Two valid paths younger than 24 hours at reading n, of the same clock
\* hour, p of the earlier minute.
SameHourRecent(p, q, n) ==
    /\ Valid(p) /\ Valid(q)
    /\ AgeAt(p, n) < H24 /\ AgeAt(q, n) < H24
    /\ ToOrdinal(Instant(p)) = ToOrdinal(Instant(q))
    /\ Instant(p).hour = Instant(q).hour
    /\ Instant(p).minute < Instant(q).minute

C20_LatestNeverDeleted ==
    \A r \in runs :
        /\ Range(calls[r]) \subseteq Range(all_snapshots[r])
        /\ \A prefix \in Range(calls[r]) : StartsWith(prefix, "snapshots/")
        /\ \A k \in requests[r] : StartsWith(k, "snapshots/")
        /\ \A k \in bucket0 : ~StartsWith(k, "snapshots/") => k \in bucket

\* A run that deleted the objects of a snapshot beside latest/a, which is
\* still there.
C20_Witness ==
    \E r \in runs :
        /\ exit_code[r] = 0 /\ ~dry_run[r]
        /\ requests[r] # {}
        /\ "latest/a" \in bucket

(***************************************************************************)
(* Further properties of the evaluator, checked under EvalSpec             *)
(***************************************************************************)

\* C21: a valid identifier whose instant is after the clock reading is in
\* the keep-set, as every identifier younger than 24 hours is.
C21_FutureKept ==
    \A e \in Evaluations : \A p \in InputPaths :
        (Valid(p) /\ AgeAt(p, e.at) < 0)
            => (p \in e.res.value /\ Rule1(AgeAt(p, e.at)))

\* A snapshot of a later day, off midnight and not of a Friday, kept.
C21_Witness ==
    \E e \in Evaluations : \E p \in InputPaths :
        /\ Valid(p) /\ AgeAt(p, e.at) < 0 - H24
        /\ ~AtMidnight(p) /\ ~OnFriday(p)
        /\ p \in e.res.value

\* C22: the keep-set holds valid input identifiers only, and it is decided
\* by the set of the input identifiers: it is the union of what each
\* identifier gives alone, whatever the order and the repetitions.
C22_SetOfValidInputs ==
    \A e \in Evaluations :
        /\ e.res.value \subseteq { p \in InputPaths : Valid(p) }
        /\ e.res.value = UNION { Alone[p, e.at].value : p \in InputPaths }

\* A list that repeats an identifier, which is kept once.
C22_Witness ==
    /\ keep1.raised = ""
    /\ Len(snapshot_paths) = 2
    /\ snapshot_paths[1] = snapshot_paths[2]
    /\ keep1.value = { snapshot_paths[1] }

\* n1 is not after n2.
NotAfter(n1, n2) == Age(n2, n1) >= 0

\* C27: an identifier that is not kept at a clock reading is not kept at
\* any later reading: not at one hour later in the same sequence of calls,
\* and not at any later reading of the clock.
C27_DecayMonotone ==
    /\ (keep1.raised = "" /\ keep2.raised = "") =>
          \A p \in InputPaths :
              (Valid(p) /\ p \notin keep1.value) => p \notin keep2.value
    /\ \A e \in Evaluations : \A p \in InputPaths : \A n \in Readings :
          (Valid(p) /\ p \notin e.res.value /\ NotAfter(e.at, n))
              => p \notin Alone[p, n].value

\* One hour apart: an identifier kept and then dropped, as it turned 24
\* hours old, beside an identifier dropped at both readings.
C27_Witness ==
    /\ keep1.raised = "" /\ keep2.raised = ""
    /\ \E p, q \in InputPaths :
          /\ Valid(p) /\ p \in keep1.value /\ p \notin keep2.value
          /\ Valid(q) /\ q \notin keep1.value /\ q \notin keep2.value

(***************************************************************************)
(* What a run reports, checked under Spec                                  *)
(***************************************************************************)

\* The sum of the object counts of the log lines.
RECURSIVE SumCounts(_)
SumCounts(lines) ==
    IF lines = << >> THEN 0 ELSE Head(lines)[3] + SumCounts(Tail(lines))

\* C23: the executor returns a report of the number of identifiers listed,
\* the number kept, the number deleted or that a dry run would delete, and
\* the identifiers whose deletion failed.
C23_ReturnsReport ==
    \A r \in runs :
        pc[r] = "done" =>
            apply_lifecycle_policy_result(r) =
                [ listed  |-> Len(all_snapshots[r]),
                  kept    |-> Cardinality(to_keep[r]),
                  deleted |-> SumCounts(log[r]),
                  failed  |-> failed[r] ]

(***************************************************************************)
(* The order of the deletions and the end of a backup, checked under Spec  *)
(***************************************************************************)

\* C26: delete_s3_prefix is called on the identifiers of the deletion set in
\* ascending order of the strings, one call after the other: when it is
\* called on an identifier, it has been called before on every smaller
\* identifier of the deletion set.
C26_AscendingSequential ==
    \A r \in runs :
        /\ \A i, j \in 1..Len(calls[r]) :
              i < j => StrLess(calls[r][i], calls[r][j])
        /\ \A j \in 1..Len(calls[r]) : \A prefix \in Range(to_delete[r]) :
              StrLess(prefix, calls[r][j])
                  => \E i \in 1..(j - 1) : calls[r][i] = prefix

\* A run that went through a deletion list of three identifiers.
C26_Witness ==
    \E r \in runs :
        /\ exit_code[r] = 0
        /\ Len(calls[r]) = 3
        /\ calls[r] = to_delete[r]

\* C28: after a run that is not a dry run and whose deletions succeeded, no
\* object is left under a listed valid identifier that was 30 days old or
\* more at the run's clock reading.
C28_OldPurged ==
    \A r \in runs :
        (Evaluated(r) /\ ~dry_run[r] /\ exit_code[r] = 0) =>
            \A prefix \in Range(all_snapshots[r]) :
                LET snapshot_dt == parse_snapshot_timestamp(prefix)
                IN  IF snapshot_dt = None THEN TRUE
                    ELSE Age(now[r], snapshot_dt) >= D30
                            => KeysUnder(bucket, prefix) = {}

\* The Friday-midnight snapshot of 2026-01-30, 30 days old to the second,
\* purged by a run that kept another snapshot.
C28_Witness ==
    \E r \in runs :
        /\ Evaluated(r) /\ ~dry_run[r] /\ exit_code[r] = 0
        /\ now[r] = DT(2026, 3, 1, 0, 0, 0)
        /\ "snapshots/2026-01-30-00-00/" \in Range(calls[r])
        /\ "snapshots/2026-01-30-00-00/a" \in bucket0 \ bucket
        /\ to_keep[r] # {}

(***************************************************************************)
(* Deletion by key prefix, checked under ConcSpec                          *)
(***************************************************************************)

\* What the call of delete_s3_prefix on prefix returned in run r: the
\* objects counted in its log lines.
deleted_count(r, prefix) ==
    SumCounts(SelectSeq(log[r], LAMBDA line : line[2] = prefix))

\* C30: the listed identifiers are direct children of snapshots/ ending
\* with "/", none a string prefix of another; a run passes no object of an
\* identifier it keeps to delete_objects, so that such an object is gone
\* only if another run removed it; and a call of delete_s3_prefix on a
\* prefix without objects returns 0 and passes nothing to delete_objects.
C30_PrefixDeletionSafe ==
    \A r \in runs :
        /\ \A prefix \in Range(all_snapshots[r]) :
              /\ StartsWith(prefix, "snapshots/")
              /\ FirstSlashFrom(prefix, 11) = Len(prefix)
        /\ \A p, q \in Range(all_snapshots[r]) : p # q => ~StartsWith(q, p)
        /\ \A prefix \in to_keep[r] :
              /\ KeysUnder(bucket0, prefix) \cap requests[r] = {}
              /\ KeysUnder(bucket0, prefix) \ bucket
                    \subseteq UNION { requests[q] : q \in runs \ {r} }
        /\ \A prefix \in Range(calls[r]) :
              /\ (KeysUnder(bucket0, prefix) \cap requests[r] = {})
                    <=> deleted_count(r, prefix) = 0
              /\ (\E q \in runs \ {r} : KeysUnder(bucket0, prefix) \subseteq requests[q])
                    => deleted_count(r, prefix) = 0

\* A run that called delete_s3_prefix on a prefix the other run had emptied,
\* and that kept an identifier whose objects are all there.
C30_Witness ==
    \E r \in runs : \E q \in runs \ {r} : \E prefix \in Range(calls[r]) :
        /\ KeysUnder(bucket0, prefix) # {}
        /\ KeysUnder(bucket0, prefix) \subseteq requests[q]
        /\ deleted_count(r, prefix) = 0
        /\ exit_code[r] = 0
        /\ \E kept \in to_keep[r] :
              KeysUnder(bucket0, kept) # {} /\ KeysUnder(bucket0, kept) \subseteq bucket

(***************************************************************************)
(* network_helpers.allocate_ipv4_subnets                                   *)
(***************************************************************************)

\* str(d) of one decimal digit d.
DigitChar(d) == SubSeq("0123456789", d + 1, d + 1)

\* str(n) of an int n >= 0.
RECURSIVE IntToStr(_)
IntToStr(n) ==
    IF n < 10 THEN DigitChar(n) ELSE IntToStr(n \div 10) \o DigitChar(n % 10)

\* str.isdigit on the ASCII strings of the model, false for "".
IsDecimal(s) == Len(s) > 0 /\ \A i \in 1..Len(s) : CharAt(s, i) \in Digits

\* int(s) of a string of decimal digits.
RECURSIVE StrToInt(_)
StrToInt(s) ==
    IF Len(s) = 0 THEN 0
    ELSE 10 * StrToInt(SubSeq(s, 1, Len(s) - 1)) + DigitVal(CharAt(s, Len(s)))

\* str.split(sep) for a one-character sep.
RECURSIVE Split(_, _)
Split(s, sep) ==
    LET i == Find(s, sep, 1)
    IN  IF i = 0 THEN << s >>
        ELSE << SubSeq(s, 1, i - 1) >> \o Split(SubSeq(s, i + 1, Len(s)), sep)

\* ipaddress: one octet of a dotted quad is 1 to 3 decimal digits without a
\* leading zero, at most 255.
ValidOctet(s) ==
    /\ IsDecimal(s)
    /\ Len(s) <= 3
    /\ Len(s) > 1 => CharAt(s, 1) # "0"
    /\ StrToInt(s) <= 255

\* ipaddress: a prefix length in digits, at most 32.
ValidPrefixLen(s) == IsDecimal(s) /\ Len(s) <= 3 /\ StrToInt(s) <= 32

\* The address of a dotted quad as an integer.
AddressInt(octets) ==
    ((StrToInt(octets[1]) * 256 + StrToInt(octets[2])) * 256
        + StrToInt(octets[3])) * 256 + StrToInt(octets[4])

\* What ip_network raised instead of a network.
NoNetwork == [version |-> 0, network_address |-> 0, prefixlen |-> 0]

\* Faulty variant of ip_network: the host bits of the address are kept.
ip_network_HostBitsKept(address) ==
    IF Find(address, ":", 1) # 0
    THEN [version |-> 6, network_address |-> 0, prefixlen |-> 0]
    ELSE LET parts  == Split(address, "/")
             octets == Split(parts[1], ".")
         IN  IF \/ Len(parts) > 2
                \/ Len(octets) # 4
                \/ \E i \in 1..Len(octets) : ~ValidOctet(octets[i])
                \/ Len(parts) = 2 /\ ~ValidPrefixLen(parts[2])
             THEN NoNetwork
             ELSE [version |-> 4, network_address |-> AddressInt(octets),
                   prefixlen |-> IF Len(parts) = 2 THEN StrToInt(parts[2]) ELSE 32]

\* ipaddress.ip_network(address, strict=False): "a.b.c.d/len" or "a.b.c.d"
\* (then /32) is an IPv4 network whose host bits are zeroed; the strings with
\* ":" of the model are well-formed IPv6 networks, of which only the version
\* is used; any other string raises ValueError.  Netmask notation after "/"
\* is not among the inputs.
ip_network(address) ==
    IF Find(address, ":", 1) # 0
    THEN [version |-> 6, network_address |-> 0, prefixlen |-> 0]
    ELSE LET parts  == Split(address, "/")
             octets == Split(parts[1], ".")
         IN  IF \/ Len(parts) > 2
                \/ Len(octets) # 4
                \/ \E i \in 1..Len(octets) : ~ValidOctet(octets[i])
                \/ Len(parts) = 2 /\ ~ValidPrefixLen(parts[2])
             THEN NoNetwork
             ELSE LET prefixlen == IF Len(parts) = 2 THEN StrToInt(parts[2]) ELSE 32
                      addr      == AddressInt(octets)
                  IN  [version |-> 4,
                       network_address |-> addr - (addr % 2^(32 - prefixlen)),
                       prefixlen |-> prefixlen]

\* str(IPv4Network)
NetworkStr(network) ==
    LET a == network.network_address
    IN  IntToStr(a \div 2^24) \o "." \o IntToStr((a \div 2^16) % 256) \o "."
          \o IntToStr((a \div 2^8) % 256) \o "." \o IntToStr(a % 256)
          \o "/" \o IntToStr(network.prefixlen)

\* list(network.subnets(new_prefix=new_prefix)): ValueError when new_prefix
\* is shorter than the network's prefix or longer than 32, else the
\* 2^(new_prefix - prefixlen) subnets from the network address upwards.
network_subnets(network, new_prefix) ==
    IF new_prefix < network.prefixlen \/ new_prefix > 32
    THEN [raised |-> "ValueError", value |-> << >>]
    ELSE [raised |-> "",
          value |-> [i \in 1..2^(new_prefix - network.prefixlen) |->
                       [version |-> 4,
                        network_address |-> network.network_address
                                              + (i - 1) * 2^(32 - new_prefix),
                        prefixlen |-> new_prefix]]]

\* list[:n]
Slice(list, n) ==
    LET stop == IF n >= 0 THEN n ELSE Len(list) + n
    IN  SubSeq(list, 1, IF stop > Len(list) THEN Len(list) ELSE stop)

\* network_helpers.py lines 25-42.
allocate_ipv4_subnets(base, count, prefix) ==
    LET network == ip_network(base)
        raise   == [raised |-> "ValueError", value |-> << >>]
    IN  IF network = NoNetwork THEN raise
        ELSE IF network.version # 4 THEN raise
        ELSE IF prefix < network.prefixlen THEN raise
        ELSE LET listed == network_subnets(network, prefix)
             IN  IF listed.raised # "" THEN raise
                 ELSE LET strs == [i \in 1..Len(listed.value) |->
                                     NetworkStr(listed.value[i])]
                      IN  IF Len(strs) < count THEN raise
                          ELSE [raised |-> "", value |-> Slice(strs, count)]

\* CIDR blocks given as base_cidr: with and without host bits, /16 to /32, an
\* IPv6 block, and strings that are no network.
BaseCidrs ==
    { "10.0.0.0/16", "10.0.77.19/16", "10.0.77.19/24", "10.0.0.0/24",
      "10.1.6.3/22", "10.0.0.0", "2600:1f14:abcd::/56", "not-a-cidr",
      "10.0.0.0/33", "300.0.0.0/16" }

\* Most subnets asked for: one per availability zone, len(azs).
MaxCount == 3

\* Subnet prefix lengths asked for.
SubnetPrefixes == {15, 16, 22, 24, 25, 26, 33}

NetInit ==
    /\ RunIdle
    /\ EvalIdle
    /\ PredIdle
    /\ EcrIdle
    /\ base_cidr \in BaseCidrs
    /\ subnet_count \in 0..MaxCount
    /\ subnet_prefix \in SubnetPrefixes
    /\ subnets = Pending

\* subnets = allocate_ipv4_subnets(base_cidr, subnet_count, subnet_prefix)
CallAllocate ==
    /\ subnets = Pending
    /\ subnets' = allocate_ipv4_subnets(base_cidr, subnet_count, subnet_prefix)
    /\ UNCHANGED << bucket, bucket0, runs, runVars, evalVars, predVars, base_cidr,
                    subnet_count, subnet_prefix, ecr_repository_url,
                    registry_domain >>

NetNext == CallAllocate

NetSpec == NetInit /\ [][NetNext]_vars

\* The base block as it is written: its address with the host bits, and its
\* prefix length.
Written(cidr) ==
    LET parts == Split(cidr, "/")
    IN  [address |-> AddressInt(Split(parts[1], ".")),
         prefixlen |-> IF Len(parts) = 2 THEN StrToInt(parts[2]) ELSE 32]

\* The strings of BaseCidrs that are IPv4 networks.
IPv4Bases ==
    { "10.0.0.0/16", "10.0.77.19/16", "10.0.77.19/24", "10.0.0.0/24",
      "10.1.6.3/22", "10.0.0.0" }

\* Number of addresses of a block of the given prefix length.
BlockSize(prefixlen) == 2^(32 - prefixlen)

Whitespace == {" ", "\t", "\n"}

\* str.lstrip()
RECURSIVE LStrip(_)
LStrip(s) ==
    IF Len(s) > 0 /\ CharAt(s, 1) \in Whitespace THEN LStrip(Tail(s)) ELSE s

\* str.rstrip()
RECURSIVE RStrip(_)
RStrip(s) ==
    IF Len(s) > 0 /\ CharAt(s, Len(s)) \in Whitespace
    THEN RStrip(SubSeq(s, 1, Len(s) - 1))
    ELSE s

\* str.strip()
Strip(s) == RStrip(LStrip(s))

\* s.split("/", 1) of a string with a "/": what is before the first "/" and
\* what is after it.
SplitOnce(s) ==
    LET i == Find(s, "/", 1)
    IN  << SubSeq(s, 1, i - 1), SubSeq(s, i + 1, Len(s)) >>

\* Faulty variant of extract_ecr_registry_domain: the repository name is not
\* looked at.
extract_ecr_registry_domain_AnyRepository(url) ==
    LET repository_url == Strip(url)
    IN  IF Len(repository_url) = 0 \/ Find(repository_url, "/", 1) = 0
        THEN [raised |-> "ValueError", value |-> ""]
        ELSE LET registry == SplitOnce(repository_url)[1]
             IN  IF Len(registry) = 0
                 THEN [raised |-> "ValueError", value |-> ""]
                 ELSE [raised |-> "", value |-> registry]

\* user_data.py lines 9-27.
extract_ecr_registry_domain(url) ==
    LET repository_url == Strip(url)
    IN  IF Len(repository_url) = 0 \/ Find(repository_url, "/", 1) = 0
        THEN [raised |-> "ValueError", value |-> ""]
        ELSE LET registry   == SplitOnce(repository_url)[1]
                 repository == SplitOnce(repository_url)[2]
             IN  IF Len(registry) = 0 \/ Len(repository) = 0
                 THEN [raised |-> "ValueError", value |-> ""]
                 ELSE [raised |-> "", value |-> registry]

\* Repository URLs: a registry part (possibly empty or with a blank), then
\* nothing, a "/" or a "/" and more, between optional whitespace.
EcrUrls ==
    { lead \o registry \o rest \o trail :
        lead \in {"", " ", "\t "},
        registry \in {"", "reg", "a b",
                      "123456789012.dkr.ecr.us-east-1.amazonaws.com"},
        rest \in {"", "/", "/openclaw", "/team/openclaw", "/ ", "//"},
        trail \in {"", " ", "\n"} }

EcrInit ==
    /\ RunIdle
    /\ EvalIdle
    /\ PredIdle
    /\ NetIdle
    /\ ecr_repository_url \in EcrUrls
    /\ registry_domain = Pending

\* registry_domain = extract_ecr_registry_domain(ecr_repository_url)
CallExtract ==
    /\ registry_domain = Pending
    /\ registry_domain' = extract_ecr_registry_domain(ecr_repository_url)
    /\ UNCHANGED << bucket, bucket0, runs, runVars, evalVars, predVars, base_cidr,
                    subnet_count, subnet_prefix, subnets, ecr_repository_url >>

EcrNext == CallExtract

EcrSpec == EcrInit /\ [][EcrNext]_vars

\* The part of url between its first and its last character that is not
\* whitespace, "" when it has none.
Trimmed(url) ==
    LET inked == { i \in 1..Len(url) : CharAt(url, i) \notin Whitespace }
    IN  IF inked = {} THEN ""
        ELSE SubSeq(url, CHOOSE i \in inked : \A j \in inked : i <= j,
                         CHOOSE i \in inked : \A j \in inked : i >= j)

\* The call on ecr_repository_url returned the part of url before its first
\* "/" if that part and what follows the "/" are not empty, and raised
\* ValueError if url is empty, has no "/", or has nothing before or after
\* its first "/".
RegistryOf(url) ==
    LET i      == Find(url, "/", 1)
        before == SubSeq(url, 1, i - 1)
        after  == SubSeq(url, i + 1, Len(url))
    IN  registry_domain # Pending =>
          IF i # 0 /\ Len(before) > 0 /\ Len(after) > 0
          THEN registry_domain.raised = "" /\ registry_domain.value = before
          ELSE registry_domain.raised = "ValueError"

\* C25 as stated: the registry part and the repository part are those of
\* the URL as it was given, and a URL of whitespace only raises ValueError.
C25_RegistryOfGivenUrl ==
    /\ RegistryOf(ecr_repository_url)
    /\ (registry_domain # Pending /\ Trimmed(ecr_repository_url) = "")
         => registry_domain.raised = "ValueError"

\* C25, amended: the registry part and the repository part are those of the
\* URL without its leading and trailing whitespace.
C25_RegistryOfTrimmedUrl == RegistryOf(Trimmed(ecr_repository_url))

\* A URL given with whitespace around it, whose registry part was returned
\* without the whitespace.
C25_Witness ==
    /\ ecr_repository_url = " 123456789012.dkr.ecr.us-east-1.amazonaws.com/openclaw\n"
    /\ registry_domain # Pending
    /\ registry_domain.raised = ""
    /\ registry_domain.value = "123456789012.dkr.ecr.us-east-1.amazonaws.com"

(***************************************************************************)
(* The evaluator on six weeks of backups, two a day                        *)
(***************************************************************************)

\* "%02d" % n
Pad2(n) == IF n < 10 THEN "0" \o IntToStr(n) ELSE IntToStr(n)

\* The days from 2026-01-25 to 2026-03-07, as << month, day >>.
DenseDays ==
    [i \in 1..42 |-> IF i <= 7 THEN << 1, 24 + i >>
                     ELSE IF i <= 35 THEN << 2, i - 7 >>
                     ELSE << 3, i - 35 >>]

\* The name of the backup of the given day and hour, at minute 00, without
\* its trailing slash.
BackupName(date, hour) ==
    "snapshots/2026-" \o Pad2(date[1]) \o "-" \o Pad2(date[2]) \o "-"
        \o Pad2(hour) \o "-00"

\* The backups of 00:00 and 12:00 of each day, as the listing names them.
HalfDaily ==
    [k \in 1..84 |-> BackupName(DenseDays[(k + 1) \div 2],
                                IF k % 2 = 1 THEN 0 ELSE 12) \o "/"]

\* The 00:00 backups once more, named without the trailing slash.
MidnightTwins == [i \in 1..42 |-> BackupName(DenseDays[i], 0)]

\* The lists given to the evaluator: distinct valid identifiers, one per
\* instant, and with the twins of the 00:00 backups.
DenseLists == { HalfDaily, HalfDaily \o MidnightTwins }

\* The clock readings of the first week of March 2026, through the day, on
\* and off the minute.
DenseClock ==
    { DT(2026, 3, d, h, 0, sec) : d \in 1..7, h \in {0, 6, 12, 23}, sec \in {0, 30} }

DenseInit ==
    /\ RunIdle
    /\ PredIdle
    /\ HelperIdle
    /\ snapshot_paths \in DenseLists
    /\ base_now \in DenseClock
    /\ keep1 = Unset
    /\ keep2 = Unset

DenseNext == EvaluateAtNow \/ EvaluateHourLater

DenseSpec == DenseInit /\ [][DenseNext]_vars

\* The instants of the identifiers of the lists.
DenseParsed ==
    [p \in Range(HalfDaily) \cup Range(MidnightTwins) |-> parse_snapshot_timestamp(p)]

\* The identifiers that evaluation e kept and that are aged lo or more and
\* less than hi at its clock reading.
KeptAged(e, lo, hi) ==
    { p \in e.res.value :
        lo <= Age(e.at, DenseParsed[p]) /\ Age(e.at, DenseParsed[p]) < hi }

\* The instants they name.
InstantsOf(paths) == { DenseParsed[p] : p \in paths }

\* C29 as stated: of the distinct valid identifiers given, at most 6 aged 24
\* hours to 7 days and at most 4 aged 7 to 30 days are kept.
C29_FewIdentifiersKept ==
    \A e \in Evaluations :
        /\ \A p \in InputPaths : DenseParsed[p] # None
        /\ Cardinality(KeptAged(e, H24, D7)) <= 6
        /\ Cardinality(KeptAged(e, D7, D30)) <= 4

\* C29, amended: the kept identifiers aged 24 hours to 7 days name at most 6
\* instants and those aged 7 to 30 days at most 4, so that of identifiers
\* naming different instants at most 6 and 4 are kept.
C29_FewInstantsKept ==
    \A e \in Evaluations :
        /\ \A p \in InputPaths : DenseParsed[p] # None
        /\ Cardinality(InstantsOf(KeptAged(e, H24, D7))) <= 6
        /\ Cardinality(InstantsOf(KeptAged(e, D7, D30))) <= 4
        /\ (\A p, q \in InputPaths : p # q => DenseParsed[p] # DenseParsed[q])
              => /\ Cardinality(KeptAged(e, H24, D7)) <= 6
                 /\ Cardinality(KeptAged(e, D7, D30)) <= 4

\* On Friday 2026-03-06 00:00, of twelve backups in the daily window and
\* forty-six in the Friday window, six instants and four instants are kept.
C29_Witness ==
    \E e \in Evaluations :
        /\ e.at = DT(2026, 3, 6, 0, 0, 0)
        /\ Cardinality(InstantsOf(KeptAged(e, H24, D7))) = 6
        /\ Cardinality(InstantsOf(KeptAged(e, D7, D30))) = 4
        /\ Cardinality({ p \in Range(HalfDaily) \cap InputPaths :
                           /\ H24 <= Age(e.at, DenseParsed[p])
                           /\ Age(e.at, DenseParsed[p]) < D7 }) = 12
        /\ Cardinality({ p \in Range(HalfDaily) \cap InputPaths :
                           /\ D7 <= Age(e.at, DenseParsed[p])
                           /\ Age(e.at, DenseParsed[p]) < D30 }) = 46

====
